---------------------------- MODULE Spec2Model ----------------------------
(***************************************************************************)
(* Safe-redirect validation of the PinPoint auth callback                  *)
(* (src/src/app/auth/callback/route.ts).                                   *)
(*                                                                         *)
(* A string is a sequence of one-character strings, so that prefixes,      *)
(* delimiters and concatenation are computed and not assumed.  The         *)
(* characters of the model are the lower-case letters, the digits, the     *)
(* punctuation / \ : ? # @ . - and the tab.  `new URL(input, base)' is     *)
(* modelled by ParseURL, a transcription of the WHATWG basic URL parser    *)
(* restricted to these characters: no upper case, no percent escapes, no   *)
(* IPv6 literals, no `file:' scheme, no punycode (xn--) labels.  The path  *)
(* state follows the parser of the runtime, which departs from the WHATWG  *)
(* text on dot segments in two places (TrivialPath, PathSegments).         *)
(***************************************************************************)
EXTENDS Integers, Sequences, FiniteSets, TLC

\* ------------------------------------------------------------ characters

Lower ==
    {"a","b","c","d","e","f","g","h","i","j","k","l","m",
     "n","o","p","q","r","s","t","u","v","w","x","y","z"}

Upper ==
    {"A","B","C","D","E","F","G","H","I","J","K","L","M",
     "N","O","P","Q","R","S","T","U","V","W","X","Y","Z"}

DigitChars == <<"0","1","2","3","4","5","6","7","8","9">>

Digit == {DigitChars[i] : i \in 1..10}

DigitVal(c) == (CHOOSE i \in 1..10 : DigitChars[i] = c) - 1

HexChars == DigitChars \o <<"a","b","c","d","e","f">>

HexDigit == {HexChars[i] : i \in 1..16}

HexVal(c) == (CHOOSE i \in 1..16 : HexChars[i] = c) - 1

TabOrNewline == {"\t", "\n", "\r"}

\* ------------------------------------------------------- string helpers

StartsWith(s, p) == Len(s) >= Len(p) /\ SubSeq(s, 1, Len(p)) = p

From(s, i) == SubSeq(s, i, Len(s))

\* The index of the first character of s that is in set, Len(s)+1 if none.
FirstIn(s, set) ==
    LET I == {i \in 1..Len(s) : s[i] \in set}
    IN  IF I = {} THEN Len(s) + 1 ELSE CHOOSE i \in I : \A j \in I : i <= j

\* The index of the last character of s that is in set, 0 if none.
LastIn(s, set) ==
    LET I == {i \in 1..Len(s) : s[i] \in set}
    IN  IF I = {} THEN 0 ELSE CHOOSE i \in I : \A j \in I : i >= j

RECURSIVE Concat(_)
Concat(ss) == IF ss = <<>> THEN <<>> ELSE Head(ss) \o Concat(Tail(ss))

\* Decimal digits of a natural number.
RECURSIVE IntToStr(_)
IntToStr(n) ==
    IF n < 10 THEN <<DigitChars[n + 1]>>
    ELSE IntToStr(n \div 10) \o <<DigitChars[(n % 10) + 1]>>

\* --------------------------------------------------------------- schemes

HTTP  == <<"h","t","t","p">>
HTTPS == <<"h","t","t","p","s">>
FTP   == <<"f","t","p">>
WS    == <<"w","s">>
WSS   == <<"w","s","s">>

SpecialSchemes == {HTTP, HTTPS, FTP, WS, WSS}

IsSpecial(scheme) == scheme \in SpecialSchemes

NoPort == -1

DefaultPort(scheme) ==
    IF scheme = HTTP \/ scheme = WS THEN 80
    ELSE IF scheme = HTTPS \/ scheme = WSS THEN 443
    ELSE IF scheme = FTP THEN 21
    ELSE NoPort

SchemeChar == Lower \cup Digit \cup {"+", "-", "."}

\* Scheme start state and scheme state: the index of the ":" that ends a
\* scheme at the start of s, or 0 when s has no scheme.
SchemeEnd(s) ==
    IF s = <<>> \/ s[1] \notin Lower THEN 0
    ELSE LET k == FirstIn(s, {c \in {s[i] : i \in 1..Len(s)} : c \notin SchemeChar})
         IN  IF k <= Len(s) /\ s[k] = ":" THEN k ELSE 0

\* ----------------------------------------------------------------- hosts

Failure == [ok |-> FALSE]

\* Split on "." (strictly: the parts between the dots, empty parts kept).
RECURSIVE SplitDots(_)
SplitDots(s) ==
    LET k == FirstIn(s, {"."})
    IN  IF k > Len(s) THEN <<s>>
        ELSE <<SubSeq(s, 1, k - 1)>> \o SplitDots(From(s, k + 1))

AllDigits(s) == \A i \in 1..Len(s) : s[i] \in Digit

\* A number below 2^32 as [hi, lo] (hi * 65536 + lo), or over = TRUE.
RECURSIVE Accumulate(_, _, _)
Accumulate(digits, radix, acc) ==
    IF digits = <<>> \/ acc.over THEN acc
    ELSE LET lo2 == acc.lo * radix + HexVal(Head(digits))
             hi2 == acc.hi * radix + (lo2 \div 65536)
         IN  Accumulate(Tail(digits), radix,
                        [over |-> hi2 >= 65536, hi |-> hi2 % 65536, lo |-> lo2 % 65536])

\* The IPv4 number parser: hexadecimal after 0x, octal after a leading 0,
\* decimal otherwise.
ParseIPv4Number(part) ==
    IF part = <<>> THEN Failure
    ELSE LET hex == Len(part) >= 2 /\ part[1] = "0" /\ part[2] = "x"
             octal == ~hex /\ Len(part) >= 2 /\ part[1] = "0"
             digits == IF hex THEN From(part, 3)
                       ELSE IF octal THEN Tail(part) ELSE part
             radix == IF hex THEN 16 ELSE IF octal THEN 8 ELSE 10
         IN  IF \E i \in 1..Len(digits) :
                    digits[i] \notin HexDigit \/ HexVal(digits[i]) >= radix
             THEN Failure
             ELSE [ok |-> TRUE]
                  @@ Accumulate(digits, radix, [over |-> FALSE, hi |-> 0, lo |-> 0])

\* The parts of a host without a trailing empty part.
TrimLast(parts) ==
    IF parts[Len(parts)] = <<>> THEN SubSeq(parts, 1, Len(parts) - 1) ELSE parts

IsNumber(last) == (last # <<>> /\ AllDigits(last)) \/ ParseIPv4Number(last).ok

\* The ends-in-a-number checker, on the host's parts.
EndsInNumber(parts) ==
    IF parts[Len(parts)] = <<>> /\ Len(parts) = 1 THEN FALSE
    ELSE IsNumber(TrimLast(parts)[Len(TrimLast(parts))])

\* The last steps of the IPv4 parser and the IPv4 serializer: every part
\* but the last is at most 255, the last fills the bytes that remain.
IPv4OfNumbers(nums) ==
    LET n == Len(nums)
        tail == <<nums[n].hi \div 256, nums[n].hi % 256,
                  nums[n].lo \div 256, nums[n].lo % 256>>
        byte(i) == IF i < n THEN nums[i].lo ELSE tail[i]
    IN  IF \E i \in 1..(n - 1) : nums[i].hi > 0 \/ nums[i].lo > 255 \/ tail[i] # 0
        THEN Failure
        ELSE [ok |-> TRUE,
              host |-> IntToStr(byte(1)) \o <<".">> \o IntToStr(byte(2)) \o <<".">>
                       \o IntToStr(byte(3)) \o <<".">> \o IntToStr(byte(4))]

IPv4OfParts(parts) ==
    IF Len(parts) > 4 THEN Failure
    ELSE IF \E i \in 1..Len(parts) :
               ~ParseIPv4Number(parts[i]).ok \/ ParseIPv4Number(parts[i]).over
    THEN Failure
    ELSE IPv4OfNumbers([i \in 1..Len(parts) |-> ParseIPv4Number(parts[i])])

\* The IPv4 parser, on the host's parts.
ParseIPv4(parts) ==
    IF Len(parts) > 1 THEN IPv4OfParts(TrimLast(parts)) ELSE IPv4OfParts(parts)

\* The domain of a special scheme, which may be an IPv4 address.
ParseDomain(name, parts) ==
    IF EndsInNumber(parts) THEN ParseIPv4(parts) ELSE [ok |-> TRUE, host |-> name]

ForbiddenHostChars == {"\t", "\n", "\r", "#", "/", ":", "?", "@", "\\"}

\* The host parser: a domain (or IPv4 address) for a special scheme, an
\* opaque host otherwise.
ParseHost(name, special) ==
    IF \E i \in 1..Len(name) : name[i] \in ForbiddenHostChars THEN Failure
    ELSE IF ~special THEN [ok |-> TRUE, host |-> name]
    ELSE IF name = <<>> THEN Failure
    ELSE ParseDomain(name, SplitDots(name))

\* The port state: at most 65535, and null when it is the scheme's default.
RECURSIVE PortValue(_, _)
PortValue(digits, acc) ==
    IF digits = <<>> THEN acc
    ELSE LET v == acc * 10 + DigitVal(Head(digits))
         IN  PortValue(Tail(digits), IF v > 65535 THEN 65536 ELSE v)

ParsePort(str, scheme) ==
    IF ~AllDigits(str) THEN Failure
    ELSE IF str = <<>> THEN [ok |-> TRUE, port |-> NoPort]
    ELSE LET v == PortValue(str, 0)
         IN  IF v > 65535 THEN Failure
             ELSE [ok |-> TRUE,
                   port |-> IF v = DefaultPort(scheme) THEN NoPort ELSE v]

\* ------------------------------------------------- path, query, fragment

\* Query state and fragment state: r is what follows the path ("", "?..."
\* or "#...").  None of the model's characters is percent-encoded there.
QueryAndFragment(r) ==
    IF r = <<>> THEN
        [hasQuery |-> FALSE, query |-> <<>>, hasFragment |-> FALSE, fragment |-> <<>>]
    ELSE IF r[1] = "?" THEN
        LET q == Tail(r)
            k == FirstIn(q, {"#"})
        IN  [hasQuery |-> TRUE, query |-> SubSeq(q, 1, k - 1),
             hasFragment |-> k <= Len(q), fragment |-> From(q, k + 1)]
    ELSE
        [hasQuery |-> FALSE, query |-> <<>>, hasFragment |-> TRUE, fragment |-> Tail(r)]

\* Shorten a (non-file) path: drop its last segment, if any.
Shorten(path) == IF path = <<>> THEN path ELSE SubSeq(path, 1, Len(path) - 1)

PathDelims(special) == IF special THEN {"/", "\\", "?", "#"} ELSE {"/", "?", "#"}

\* The runtime's shortcut for a path it takes as it stands: input is the
\* path without its first slash, up to the query or the fragment.  A path
\* without dots (and, for a special scheme, without backslashes) is
\* trivial; a path with dots and no backslash is searched for its FIRST
\* "/." only, and is trivial when that is followed by a character other
\* than "." and "/": dot segments further on are then left in place.
TrivialPath(input, special) ==
    LET chars == {input[i] : i \in 1..Len(input)}
        slashdot == {i \in 1..(Len(input) - 1) :
                        input[i] = "/" /\ input[i + 1] = "."}
        first == CHOOSE i \in slashdot : \A j \in slashdot : i <= j
    IN  IF "." \notin chars THEN ~(special /\ "\\" \in chars)
        ELSE IF "\\" \in chars \/ input[1] = "." THEN FALSE
        ELSE slashdot = {}
             \/ (first + 2 <= Len(input) /\ input[first + 2] \notin {".", "/"})

\* The path, one segment per step: r starts a segment; the result is the
\* list of segments and what follows the path.  A trivial path keeps every
\* segment; otherwise "." and ".." are resolved, and a last ".." that finds
\* nothing to remove adds the closing empty segment for a special scheme
\* only.
RECURSIVE PathSegments(_, _, _, _)
PathSegments(path, r, special, trivial) ==
    LET k == FirstIn(r, IF trivial THEN {"/", "?", "#"} ELSE PathDelims(special))
        seg == SubSeq(r, 1, k - 1)
        slash == k <= Len(r) /\ r[k] \in {"/", "\\"}
        path2 == IF trivial THEN Append(path, seg)
                 ELSE IF seg = <<".", ".">> THEN
                     IF slash THEN Shorten(path)
                     ELSE IF special \/ path # <<>>
                     THEN Append(Shorten(path), <<>>)
                     ELSE path
                 ELSE IF seg = <<".">> THEN
                     IF slash THEN path ELSE Append(path, <<>>)
                 ELSE Append(path, seg)
    IN  IF slash THEN PathSegments(path2, From(r, k + 1), special, trivial)
        ELSE [path |-> path2, rest |-> From(r, k)]

\* Path state: r follows the path's first slash.
PathState(path, r, special) ==
    PathSegments(path, r, special,
                 TrivialPath(SubSeq(r, 1, FirstIn(r, {"?", "#"}) - 1), special))

\* A URL with a list path (not opaque) from its parts.
MkURL(scheme, hasHost, host, port, path, qf) ==
    [ok |-> TRUE, scheme |-> scheme, hasHost |-> hasHost, host |-> host,
     port |-> port, opaque |-> FALSE, opaquePath |-> <<>>, path |-> path]
    @@ qf

\* Path state entered with the segments so far, on r.
AfterPath(scheme, hasHost, host, port, p) ==
    MkURL(scheme, hasHost, host, port, p.path, QueryAndFragment(p.rest))

WithPath(scheme, hasHost, host, port, path, r) ==
    AfterPath(scheme, hasHost, host, port, PathState(path, r, IsSpecial(scheme)))

\* Path start state: r is what follows the authority ("" or a delimiter).
PathStart(scheme, host, port, r) ==
    IF IsSpecial(scheme) THEN
        IF r # <<>> /\ r[1] \in {"/", "\\"}
        THEN WithPath(scheme, TRUE, host, port, <<>>, Tail(r))
        ELSE WithPath(scheme, TRUE, host, port, <<>>, r)
    ELSE IF r # <<>> /\ r[1] = "/" THEN WithPath(scheme, TRUE, host, port, <<>>, Tail(r))
    ELSE MkURL(scheme, TRUE, host, port, <<>>, QueryAndFragment(r))

\* ------------------------------------------------------------- authority

\* After the port state: the path, unless the host or the port failed.
AfterAuthority(scheme, h, p, rest) ==
    IF ~h.ok \/ ~p.ok THEN Failure ELSE PathStart(scheme, h.host, p.port, rest)

\* Host state and port state: the host name ends at the first ":"; a port
\* without a host name, an empty host of a special scheme, a host with a
\* forbidden character and a bad port are failures.
HostState(scheme, hostport, colon, rest) ==
    IF colon = 1 /\ colon <= Len(hostport) THEN Failure
    ELSE AfterAuthority(scheme,
                        ParseHost(SubSeq(hostport, 1, colon - 1), IsSpecial(scheme)),
                        IF colon <= Len(hostport)
                        THEN ParsePort(From(hostport, colon + 1), scheme)
                        ELSE [ok |-> TRUE, port |-> NoPort],
                        rest)

\* The credentials (all up to the last "@") are dropped; an "@" with
\* nothing behind it is a failure.
Credentials(scheme, auth, at, rest) ==
    IF at > 0 /\ at = Len(auth) THEN Failure
    ELSE HostState(scheme, From(auth, at + 1), FirstIn(From(auth, at + 1), {":"}), rest)

Authority(scheme, r, k) ==
    Credentials(scheme, SubSeq(r, 1, k - 1), LastIn(SubSeq(r, 1, k - 1), {"@"}),
                From(r, k))

\* Authority state: r follows the slashes of the authority, which ends at
\* the first delimiter.
AuthorityState(scheme, r) == Authority(scheme, r, FirstIn(r, PathDelims(IsSpecial(scheme))))

\* Special authority ignore slashes state: skip every "/" and "\".
StripSlashes(r) ==
    From(r, FirstIn(r, {c \in {r[i] : i \in 1..Len(r)} : c \notin {"/", "\\"}}))

\* -------------------------------------------------------------- relative

\* Relative state and relative slash state: r has no scheme (or the base's
\* scheme followed by no "//") and is resolved against base.
RelativeState(base, r) ==
    LET special == IsSpecial(base.scheme)
        keep(path, rest) ==
            WithPath(base.scheme, base.hasHost, base.host, base.port, path, rest)
    IN  IF r = <<>> THEN
            MkURL(base.scheme, base.hasHost, base.host, base.port, base.path,
                  [hasQuery |-> base.hasQuery, query |-> base.query,
                   hasFragment |-> FALSE, fragment |-> <<>>])
        ELSE IF r[1] = "/" \/ (special /\ r[1] = "\\") THEN
            LET s == Tail(r)
            IN  IF special /\ s # <<>> /\ s[1] \in {"/", "\\"}
                THEN AuthorityState(base.scheme, StripSlashes(s))
                ELSE IF s # <<>> /\ s[1] = "/"
                THEN AuthorityState(base.scheme, Tail(s))
                ELSE keep(<<>>, s)
        ELSE IF r[1] = "?" THEN
            MkURL(base.scheme, base.hasHost, base.host, base.port, base.path,
                  QueryAndFragment(r))
        ELSE IF r[1] = "#" THEN
            MkURL(base.scheme, base.hasHost, base.host, base.port, base.path,
                  [hasQuery |-> base.hasQuery, query |-> base.query,
                   hasFragment |-> TRUE, fragment |-> Tail(r)])
        ELSE keep(Shorten(base.path), r)

\* Opaque path state: a non-special scheme followed by no "/".
OpaquePath(scheme, r) ==
    LET k == FirstIn(r, {"?", "#"})
    IN  [ok |-> TRUE, scheme |-> scheme, hasHost |-> FALSE, host |-> <<>>,
         port |-> NoPort, opaque |-> TRUE, opaquePath |-> SubSeq(r, 1, k - 1),
         path |-> <<>>]
        @@ QueryAndFragment(From(r, k))

\* ------------------------------------------------------------ new URL()

\* No base: new URL(input).
NoBase == Failure

\* new URL(input, base): the parsed URL, or Failure where the constructor
\* throws a TypeError.  base is NoBase or a parsed URL with a special scheme.
ParseURL(input, base) ==
    LET s == SelectSeq(input, LAMBDA c : c \notin TabOrNewline)
        e == SchemeEnd(s)
        scheme == SubSeq(s, 1, e - 1)
        r == From(s, e + 1)
    IN  IF e = 0 THEN (IF base.ok THEN RelativeState(base, s) ELSE Failure)
        ELSE IF IsSpecial(scheme) THEN
            IF base.ok /\ scheme = base.scheme /\ ~StartsWith(r, <<"/", "/">>)
            THEN RelativeState(base, r)
            ELSE AuthorityState(scheme, StripSlashes(r))
        ELSE IF StartsWith(r, <<"/", "/">>) THEN AuthorityState(scheme, From(r, 3))
        ELSE IF StartsWith(r, <<"/">>) THEN
            WithPath(scheme, FALSE, <<>>, NoPort, <<>>, Tail(r))
        ELSE OpaquePath(scheme, r)

\* The getters of URL that the callback reads.
RECURSIVE SerializePath(_)
SerializePath(path) ==
    IF path = <<>> THEN <<>> ELSE <<"/">> \o Head(path) \o SerializePath(Tail(path))

UrlPathname(u) == IF u.opaque THEN u.opaquePath ELSE SerializePath(u.path)

UrlSearch(u) == IF u.hasQuery /\ u.query # <<>> THEN <<"?">> \o u.query ELSE <<>>

UrlHash(u) == IF u.hasFragment /\ u.fragment # <<>> THEN <<"#">> \o u.fragment ELSE <<>>

UrlHost(u) ==
    IF ~u.hasHost THEN <<>>
    ELSE IF u.port = NoPort THEN u.host
    ELSE u.host \o <<":">> \o IntToStr(u.port)

\* ------------------------------------------------------------ the code

\* A string | null value.
Null == [isNull |-> TRUE, str |-> <<>>]

Some(s) == [isNull |-> FALSE, str |-> s]

\* How a call completes: normally with a value, or abruptly (a throw).
Return(v) == [threw |-> FALSE, value |-> v]

Throw == [threw |-> TRUE, value |-> <<>>]

\* A variant of IsInternalUrl that forgets protocol-relative URLs.
IsInternalUrlAnySlash(url) == StartsWith(url, <<"/">>)

\* A variant of IsInternalUrl that only refuses protocol-relative URLs.
IsInternalUrlNotProtocolRelative(url) == ~StartsWith(url, <<"/", "/">>)

\* A variant of IsInternalUrl that lets a protocol-relative URL through when
\* the host that follows is the application's own.
IsInternalUrlOwnHostAllowed(url) ==
    /\ StartsWith(url, <<"/">>)
    /\ ~StartsWith(url, <<"/", "/">>) \/ StartsWith(url, <<"/", "/", "a">>)

\* isInternalUrl of ~/lib/url: a path of the application itself, that is a
\* string that starts with "/" and not with "//".
IsInternalUrl(url) == StartsWith(url, <<"/">>) /\ ~StartsWith(url, <<"/", "/">>)

Fallback == <<"/">>

\* The dummy base of resolveRedirectPath, "http://localhost".
DummyBase ==
    ParseURL(<<"h","t","t","p",":","/","/","l","o","c","a","l","h","o","s","t">>, NoBase)

Includes(list, x) == \E i \in 1..Len(list) : list[i] = x

\* resolveRedirectPath, line 42: normalizedPath.
NormalizedPath(parsed) == UrlPathname(parsed) \o UrlSearch(parsed) \o UrlHash(parsed)

\* Variants of ResolveParsed with one slip each: the path is not
\* re-validated; the candidate itself is returned; the host is compared
\* without its port; the query and fragment are dropped; the constructor's
\* throw is not caught.
ResolveParsedNoRevalidate(parsed, allowedHosts) ==
    IF parsed.ok /\ Includes(allowedHosts, UrlHost(parsed))
    THEN Return(NormalizedPath(parsed))
    ELSE Return(Fallback)

ResolveParsedHostname(parsed, allowedHosts) ==
    IF parsed.ok /\ parsed.hasHost /\ Includes(allowedHosts, parsed.host)
       /\ IsInternalUrl(NormalizedPath(parsed))
    THEN Return(NormalizedPath(parsed))
    ELSE Return(Fallback)

ResolveParsedPathnameOnly(parsed, allowedHosts) ==
    IF parsed.ok /\ Includes(allowedHosts, UrlHost(parsed))
       /\ IsInternalUrl(NormalizedPath(parsed))
    THEN Return(UrlPathname(parsed))
    ELSE Return(Fallback)

ResolveParsedUncaught(parsed, allowedHosts) ==
    IF ~parsed.ok THEN Throw
    ELSE IF Includes(allowedHosts, UrlHost(parsed)) /\ IsInternalUrl(NormalizedPath(parsed))
    THEN Return(NormalizedPath(parsed))
    ELSE Return(Fallback)

\* A variant of ResolveParsed whose re-validation only asks for a leading
\* "/".
ResolveParsedRevalidateLeadingSlash(parsed, allowedHosts) ==
    IF parsed.ok /\ Includes(allowedHosts, UrlHost(parsed))
       /\ StartsWith(NormalizedPath(parsed), <<"/">>)
    THEN Return(NormalizedPath(parsed))
    ELSE Return(Fallback)

\* resolveRedirectPath, lines 35-51: what follows new URL(); a throw of the
\* constructor is caught and falls through to the fallback.
ResolveParsed(parsed, allowedHosts) ==
    IF parsed.ok /\ Includes(allowedHosts, UrlHost(parsed))
       /\ IsInternalUrl(NormalizedPath(parsed))
    THEN Return(NormalizedPath(parsed))
    ELSE Return(Fallback)

\* Variants of ResolveRedirectPath with one slip each: an internal path is
\* parsed like any other candidate; a null candidate is not tested for; a
\* candidate with a trusted host is returned as it came.
ResolveRedirectPathAlwaysParse(nextParam, allowedHosts) ==
    IF nextParam.isNull \/ nextParam.str = <<>> THEN Return(Fallback)
    ELSE ResolveParsed(ParseURL(nextParam.str, DummyBase), allowedHosts)

ResolveRedirectPathNoNullCheck(nextParam, allowedHosts) ==
    IF nextParam.isNull THEN Throw
    ELSE IF IsInternalUrl(nextParam.str) THEN Return(nextParam.str)
    ELSE ResolveParsed(ParseURL(nextParam.str, DummyBase), allowedHosts)

ResolveRedirectPathReturnCandidate(nextParam, allowedHosts) ==
    IF nextParam.isNull \/ nextParam.str = <<>> THEN Return(Fallback)
    ELSE IF IsInternalUrl(nextParam.str) THEN Return(nextParam.str)
    ELSE IF ResolveParsed(ParseURL(nextParam.str, DummyBase), allowedHosts) = Return(Fallback)
    THEN Return(Fallback)
    ELSE Return(nextParam.str)

\* resolveRedirectPath(nextParam, allowedHosts).
ResolveRedirectPath(nextParam, allowedHosts) ==
    IF nextParam.isNull \/ nextParam.str = <<>> THEN Return(Fallback)
    ELSE IF IsInternalUrl(nextParam.str) THEN Return(nextParam.str)
    ELSE ResolveParsed(ParseURL(nextParam.str, DummyBase), allowedHosts)

\* encodeURIComponent: letters, digits and - . are kept, every other
\* character of the model becomes its percent escape.
EncodeChar(c) ==
    IF c \in Lower \cup Upper \cup Digit \cup {"-", "."} THEN <<c>>
    ELSE IF c = "/" THEN <<"%","2","F">>
    ELSE IF c = "\\" THEN <<"%","5","C">>
    ELSE IF c = ":" THEN <<"%","3","A">>
    ELSE IF c = "?" THEN <<"%","3","F">>
    ELSE IF c = "#" THEN <<"%","2","3">>
    ELSE IF c = "@" THEN <<"%","4","0">>
    ELSE IF c = "+" THEN <<"%","2","B">>
    ELSE IF c = "\t" THEN <<"%","0","9">>
    ELSE IF c = "\n" THEN <<"%","0","A">>
    ELSE <<"%","0","D">>

EncodeURIComponent(s) == Concat([i \in 1..Len(s) |-> EncodeChar(s[i])])

ResetPassword == <<"/","r","e","s","e","t","-","p","a","s","s","w","o","r","d">>

LoadingPrefix == <<"/","a","u","t","h","/","l","o","a","d","i","n","g","?","n","e","x","t","=">>

AuthCodeError == <<"/","a","u","t","h","/","a","u","t","h","-","c","o","d","e","-","e","r","r","o","r">>

\* GET, lines 83-86: the path of the success redirect.
\* A variant of RedirectPath that sends every path under /reset-password
\* through the loading screen.
RedirectPathByPrefix(next) ==
    IF StartsWith(next, ResetPassword) THEN LoadingPrefix \o EncodeURIComponent(next)
    ELSE next

RedirectPath(next) ==
    IF next = ResetPassword THEN LoadingPrefix \o EncodeURIComponent(next) ELSE next

EmailOtpTypes ==
    { <<"s","i","g","n","u","p">>, <<"i","n","v","i","t","e">>, <<"m","a","g","i","c","l","i","n","k">>, <<"r","e","c","o","v","e","r","y">>, <<"e","m","a","i","l","_","c","h","a","n","g","e">>, <<"e","m","a","i","l">> }

\* A variant of IsValidEmailOtpType that takes any type that is given.
IsValidEmailOtpTypeAny(value) == ~value.isNull /\ value.str # <<>>

\* isValidEmailOtpType(value).
IsValidEmailOtpType(value) == ~value.isNull /\ value.str # <<>> /\ value.str \in EmailOtpTypes

\* A JavaScript truthiness test of a string | null.
Truthy(v) == ~v.isNull /\ v.str # <<>>

\* ------------------------------------------------- submitPublicIssueAction

\* How submitPublicIssueAction can end: redirect(url) (a redirect signal is
\* thrown), return {error}, or an exception that is not a redirect signal.
Redirect(target) == [kind |-> "redirect", text |-> target]

ReturnError(message) == [kind |-> "return", text |-> message]

ThrowError(message) == [kind |-> "throw", text |-> message]

Pending == [kind |-> "none", text |-> <<>>]

\* isRedirectError(error).
IsRedirectError(error) == error.kind = "redirect"

\* application/x-www-form-urlencoded serialisation of one character, as
\* URLSearchParams.toString() does it: letters, digits and * - . _ stand
\* for themselves, a space becomes +, every other character its escape.
\* The characters are the printable ASCII ones (the grave accent left out),
\* the tab and the line ends.
FormEncodeChar(c) ==
    IF c \in Lower \cup Upper \cup Digit \cup {"*", "-", ".", "_"} THEN <<c>>
    ELSE IF c = " " THEN <<"+">>
    ELSE
         CASE c = "\t" -> <<"%","0","9">>
           [] c = "\n" -> <<"%","0","A">>
           [] c = "\r" -> <<"%","0","D">>
           [] c = "!" -> <<"%","2","1">>
           [] c = "\"" -> <<"%","2","2">>
           [] c = "#" -> <<"%","2","3">>
           [] c = "$" -> <<"%","2","4">>
           [] c = "%" -> <<"%","2","5">>
           [] c = "&" -> <<"%","2","6">>
           [] c = "'" -> <<"%","2","7">>
           [] c = "(" -> <<"%","2","8">>
           [] c = ")" -> <<"%","2","9">>
           [] c = "+" -> <<"%","2","B">>
           [] c = "," -> <<"%","2","C">>
           [] c = "/" -> <<"%","2","F">>
           [] c = ":" -> <<"%","3","A">>
           [] c = ";" -> <<"%","3","B">>
           [] c = "<" -> <<"%","3","C">>
           [] c = "=" -> <<"%","3","D">>
           [] c = ">" -> <<"%","3","E">>
           [] c = "?" -> <<"%","3","F">>
           [] c = "@" -> <<"%","4","0">>
           [] c = "[" -> <<"%","5","B">>
           [] c = "\\" -> <<"%","5","C">>
           [] c = "]" -> <<"%","5","D">>
           [] c = "^" -> <<"%","5","E">>
           [] c = "{" -> <<"%","7","B">>
           [] c = "|" -> <<"%","7","C">>
           [] c = "}" -> <<"%","7","D">>
           [] c = "~" -> <<"%","7","E">>

FormEncode(s) == Concat([i \in 1..Len(s) |-> FormEncodeChar(s[i])])

\* new URLSearchParams({name: value}).toString().
SearchParams(name, value) == FormEncode(name) \o <<"=">> \o FormEncode(value)

ReportSuccess == <<"/","r","e","p","o","r","t","/","s","u","c","c","e","s","s">>

\* Variant of redirectWithError that hands the message back as the action's
\* state instead of redirecting.
ReturnWithError(message) == ReturnError(message)

\* redirectWithError(message).
RedirectWithError(message) ==
    Redirect(<<"/","r","e","p","o","r","t","?">> \o SearchParams(<<"e","r","r","o","r">>, message))

TooManySubmissions(resetTime) ==
    <<"T","o","o"," ","m","a","n","y"," ","s","u","b","m","i","s","s","i","o","n","s","."," ","P","l","e","a","s","e"," ","t","r","y"," ","a","g","a","i","n"," ","i","n"," ">> \o resetTime \o <<".">>

ExistingAccount == <<"T","h","i","s"," ","e","m","a","i","l"," ","i","s"," ","a","s","s","o","c","i","a","t","e","d"," ","w","i","t","h"," ","a","n"," ","e","x","i","s","t","i","n","g"," ","a","c","c","o","u","n","t","."," ","P","l","e","a","s","e"," ","l","o","g"," ","i","n"," ","t","o"," ","r","e","p","o","r","t"," ","t","h","i","s"," ","i","s","s","u","e",".">>

MachineNotFound == <<"M","a","c","h","i","n","e"," ","n","o","t"," ","f","o","u","n","d",".">>

GenericError == <<"U","n","a","b","l","e"," ","t","o"," ","s","u","b","m","i","t"," ","t","h","e"," ","i","s","s","u","e","."," ","P","l","e","a","s","e"," ","t","r","y"," ","a","g","a","i","n",".">>

\* The success URL of an anonymous submission, lines 194-204.
SuccessUrl(reporterEmail, reporterName, reportedBy) ==
    IF (reporterEmail # <<>> \/ reporterName # <<>>) /\ ~reportedBy
    THEN ReportSuccess \o <<"?">> \o SearchParams(<<"n","e","w","_","p","e","n","d","i","n","g">>, <<"t","r","u","e">>)
    ELSE ReportSuccess

\* The issue page an authenticated reporter is sent to, line 190.
IssueUrl(initials, issueNumber) ==
    <<"/","m","/">> \o initials \o <<"/","i","/">> \o IntToStr(issueNumber)

\* [firstName, lastName].filter(Boolean).join(" ").
JoinName(firstName, lastName) ==
    IF firstName # <<>> /\ lastName # <<>> THEN firstName \o <<" ">> \o lastName
    ELSE firstName \o lastName

\* A variant of CatchSubmit that answers with the error's own message.
CatchSubmitRawMessage(error) ==
    IF IsRedirectError(error) THEN error ELSE ReturnError(error.text)

\* The catch block, lines 205-214: a redirect signal is thrown again, any
\* other error is answered with the generic message.
CatchSubmit(error) ==
    IF IsRedirectError(error) THEN error ELSE ReturnError(GenericError)
\* ---------------------------------------------------------------- inputs

\* The longest free part of a candidate.
MaxLen == 3

\* The characters the free part of a candidate is made of.
Sigma == {"/", "\\", ":", "?", "#", "@", ".", "a", "8"}

\* Every string over Sigma of length at most n.
RECURSIVE Strings(_)
Strings(n) ==
    IF n = 0 THEN {<<>>}
    ELSE LET shorter == Strings(n - 1)
         IN  shorter \cup {Append(s, c) : s \in {x \in shorter : Len(x) = n - 1},
                                          c \in Sigma}

\* What a candidate starts with: nothing, a scheme, an authority, a path.
Prefixes ==
    { <<>>,
      <<"h","t","t","p",":">>,
      <<"h","t","t","p","s",":">>,
      <<"e",":">>,
      <<"h","t","t","p",":","/","/","a">>,
      <<"h","t","t","p","s",":","/","/","a">>,
      <<"h","t","t","p","s",":","/","/","e">>,
      <<"h","t","t","p",":","/","/","a",":","8","0">>,
      <<"h","t","t","p","s",":","/","/","a",":","8">>,
      <<"h","t","t","p","s",":","/","/","a","/","a">>,
      <<"/","a">>,
      <<"/","a","?","a">>,
      <<"/","\t">> }

Candidates == {p \o s : p \in Prefixes, s \in Strings(MaxLen)}

LOCALHOST == <<"l","o","c","a","l","h","o","s","t">>

JAVASCRIPT == <<"j","a","v","a","s","c","r","i","p","t">>

\* The trusted-host lists: none, one host, a host with a port beside the
\* dummy base's host, two hosts.
HostLists ==
    { <<>>,
      << <<"a">> >>,
      << <<"a",":","8">>, LOCALHOST >>,
      << <<"e">>, <<"a">> >> }

\* The arguments isInternalUrl is called with.
UrlArguments ==
    {p \o s : p \in {<<>>, <<"/">>, <<"/","/">>, <<"h","t","t","p",":">>,
                       JAVASCRIPT \o <<":">>, <<"/","/">> \o LOCALHOST \o <<"/">>},
              s \in Strings(MaxLen)}

\* The requests of the auth callback: the query parameters, each absent
\* (null), empty or set.
Types == {Null, Some(<<"r","e","c","o","v","e","r","y">>), Some(<<"s","m","s">>)}

Nexts ==
    { Null, Some(<<>>), Some(ResetPassword), Some(ResetPassword \o <<"?","a">>),
      Some(ResetPassword \o <<"#","a">>),
      Some(HTTPS \o <<":","/","/","a">> \o ResetPassword),
      Some(<<"/","/","e","/","a">>), Some(<<"/","\\","e">>) }

\* The requests: every combination of code, token hash and type with no
\* next and with the reset page as next; every next for a request with a
\* code, with and without a token hash; every type for a request with a
\* token hash, with and without a code.
Requests ==
    [code : {Null, Some(<<>>), Some(<<"c">>)},
     tokenHash : {Null, Some(<<>>), Some(<<"t">>)}, type : Types,
     next : {Null, Some(ResetPassword)}]
    \cup [code : {Some(<<"c">>)}, tokenHash : {Null, Some(<<"t">>)},
          type : {Some(<<"r","e","c","o","v","e","r","y">>)}, next : Nexts]
    \cup [code : {Null, Some(<<"c">>)}, tokenHash : {Some(<<"t">>)},
          type : Types \cup {Some(<<>>)} \cup {Some(type) : type \in EmailOtpTypes},
          next : {Null}]

\* The configured canonical site URL (NEXT_PUBLIC_SITE_URL).
SiteUrls == { <<"h","t","t","p","s",":","/","/","a">>, <<"h","t","t","p",":","/","/","a",":","8">> }

\* The Host and X-Forwarded-Host headers a client can send.
HeaderValues == { <<"a">>, <<"e">> }

\* What the auth client queues through setAll during one call.
Cookie(name, value, options) == [name |-> name, value |-> value, options |-> options]

Runs == {1, 2}

\* The submitted forms: the honeypot field, the contact details, the
\* priority.
Forms ==
    [website : { <<>>, <<"h","t","t","p",":","/","/","s","p","a","m">> },
     email : { <<>>, <<"r","@","x",".","i","o">> },
     firstName : { <<>>, <<"A","l">> },
     lastName : { <<>>, <<"B","o">> },
     priority : { "low", "medium", "high" }]

\* What formatResetTime answers.
ResetTimes == { <<"1","0"," ","m","i","n","u","t","e","s">> }

\* The messages parsePublicIssueForm rejects a form with.
ParseErrors == { <<"T","i","t","l","e"," ","i","s"," ","r","e","q","u","i","r","e","d">> }

\* The messages a backend call (rate limiter, auth, database, createIssue)
\* rejects with.
BackendErrors == { <<"D","a","t","a","b","a","s","e"," ","c","o","n","n","e","c","t","i","o","n"," ","f","a","i","l","e","d",":"," ","u","s","e","r","=","p","o","s","t","g","r","e","s"," ","p","a","s","s","w","o","r","d","=","s","e","c","r","e","t">>, <<"d","u","p","l","i","c","a","t","e"," ","k","e","y"," ","v","a","l","u","e">> }

\* The roles of a user profile; "none" when the user has no profile row.
Roles == { "admin", "member", "guest", "none" }

\* The machine the form names, when the database has it.
MachineInitials == <<"M","M">>

\* The number createIssue gives the issue.
IssueNumbers == { 1, 42 }

\* ------------------------------------------------ state of the report form

VARIABLES
    form,          \* submitPublicIssueAction: the submitted form data
    sub,           \* submitPublicIssueAction: its locals, calls and outcome
    page           \* MachineDetailPage: its inputs and where each request stands

NoForm ==
    [website |-> <<>>, email |-> <<>>, firstName |-> <<>>, lastName |-> <<>>,
     priority |-> "medium"]

IdleSub ==
    [pc |-> "start", reportedBy |-> FALSE, reporterName |-> <<>>,
     reporterEmail |-> <<>>, machine |-> <<>>, role |-> "none",
     finalPriority |-> "medium", isMemberOrAdmin |-> FALSE, calls |-> <<>>,
     limited |-> FALSE, parseError |-> <<>>, activeUser |-> "unasked",
     created |-> <<>>, raised |-> Pending, outcome |-> Pending]

\* The action ends: nothing runs after a redirect, a return or a throw.
Ends(s, called, outcome) ==
    [s EXCEPT !.pc = "done", !.calls = called, !.outcome = outcome]
\* -------------------------------------------------------- MachineDetailPage

\* The machines the database has; a detail page can be asked for any
\* initials.
PageMachines == { <<"M","M">>, <<"A","F","M">> }

\* resolveRequestUrl(headers) of ~/lib/url: the URL the request was made
\* to, read from the forwarded host or else the host header.
ResolveRequestUrl(h) ==
    HTTPS \o <<":","/","/">> \o (IF h.forwardedHost # <<>> THEN h.forwardedHost ELSE h.host)

\* buildMachineReportUrl({siteUrl, machineInitials, source}) of
\* ~/lib/machines/report-url.
BuildMachineReportUrl(siteUrl, machineInitials, source) ==
    siteUrl \o <<"/","r","e","p","o","r","t","?","m","a","c","h","i","n","e","=">> \o machineInitials \o <<"&","s","o","u","r","c","e","=">> \o source

\* generateQrPngDataUrl(text) of ~/lib/machines/qr: the image that encodes
\* text, and no other text.
GenerateQrPngDataUrl(text) == <<"d","a","t","a",":","i","m","a","g","e","/","p","n","g",";","q","r",",">> \o text

\* The page's inputs (the initials asked for, whether the visitor is signed
\* in, the role of the visitor's profile) and, for each request, the await
\* it stands at, what it ended with and what it has built.
IdlePage ==
    [initials |-> <<>>, user |-> FALSE, role |-> "none",
     out |-> [r \in Runs |-> [pc |-> "start", text |-> <<>>,
                              reportUrl |-> <<>>, qrDataUrl |-> <<>>]]]

\* ----------------------------------------------------------------- state

VARIABLES
    op,            \* the operation this behaviour runs
    url,           \* isInternalUrl's argument
    nextParam,     \* resolveRedirectPath's candidate (a string or null)
    allowedHosts,  \* resolveRedirectPath's trusted-host list
    pc,            \* "call", "returned", "again"
    ret,           \* how the call completed
    ret2,          \* how resolveRedirectPath completed on its own result
    request,       \* GET: the query parameters code, token_hash, type, next
    env,           \* GET: the server configuration (site URL, Supabase keys)
    auth,          \* GET: what the auth provider answers and queues
    headers,       \* GET: the client's headers, per request
    run            \* GET: the handler's locals and response, per request

vars == <<op, url, nextParam, allowedHosts, pc, ret, ret2,
          request, env, auth, headers, run, form, sub, page>>

fnVars == <<url, nextParam, allowedHosts, pc, ret, ret2>>

getInputs == <<request, env, auth, headers>>

NoReturn == Return(<<>>)

NoResponse == [sent |-> FALSE, location |-> <<>>, cookies |-> <<>>]

IdleRun ==
    [pc |-> "start", allowedHosts |-> <<>>, next |-> <<>>, redirectPath |-> <<>>,
     pendingCookies |-> <<>>, calls |-> <<>>, response |-> NoResponse]

NoRequest == [code |-> Null, tokenHash |-> Null, type |-> Null, next |-> Null]

NoEnv == [siteUrl |-> <<>>, supabaseKeys |-> TRUE]

NoAuth ==
    [exchangeError |-> FALSE, verifyError |-> FALSE,
     exchangeCookies |-> <<>>, verifyCookies |-> <<>>, userCookies |-> <<>>]

NoHeaders == [host |-> <<>>, forwardedHost |-> <<>>]

InitIsInternalUrl ==
    /\ op = "isInternalUrl"
    /\ url \in UrlArguments
    /\ nextParam = Null
    /\ allowedHosts = <<>>
    /\ request = NoRequest /\ env = NoEnv /\ auth = NoAuth
    /\ headers = [r \in Runs |-> NoHeaders]
    /\ pc = "call" /\ ret = NoReturn /\ ret2 = NoReturn
    /\ run = [r \in Runs |-> IdleRun]
    /\ form = NoForm /\ sub = IdleSub /\ page = IdlePage

InitResolveRedirectPath ==
    /\ op = "resolveRedirectPath"
    /\ url = <<>>
    /\ nextParam \in {Null} \cup {Some(c) : c \in Candidates}
    /\ allowedHosts \in HostLists
    /\ request = NoRequest /\ env = NoEnv /\ auth = NoAuth
    /\ headers = [r \in Runs |-> NoHeaders]
    /\ pc = "call" /\ ret = NoReturn /\ ret2 = NoReturn
    /\ run = [r \in Runs |-> IdleRun]
    /\ form = NoForm /\ sub = IdleSub /\ page = IdlePage

\* Two requests in flight at once, with the same query parameters,
\* answered the same way by the auth provider, under the same
\* configuration; the first carries the site's own host in its headers, the
\* second any headers.  Each yields at its awaits and the other goes on.
InitGET ==
    /\ op = "GET"
    /\ url = <<>> /\ nextParam = Null /\ allowedHosts = <<>>
    /\ request \in Requests
    /\ env \in [siteUrl : SiteUrls, supabaseKeys : {TRUE}]
               \cup {[siteUrl |-> <<"h","t","t","p","s",":","/","/","a">>, supabaseKeys |-> FALSE]}
    /\ auth \in [exchangeError : BOOLEAN, verifyError : BOOLEAN,
                 exchangeCookies : { <<>>, <<Cookie("sb", "1", "none")>> },
                 verifyCookies :
                     { <<>>,
                       <<Cookie("sb", "2", "httpOnly"), Cookie("rt", "9", "none"),
                         Cookie("sb", "3", "none")>> },
                 userCookies : { <<>>, <<Cookie("sb", "4", "none")>> }]
    /\ \E h \in [host : HeaderValues, forwardedHost : HeaderValues] :
          headers = [r \in Runs |-> IF r = 1 THEN [host |-> <<"a">>, forwardedHost |-> <<"a">>]
                                    ELSE h]
    /\ pc = "call" /\ ret = NoReturn /\ ret2 = NoReturn
    /\ run = [r \in Runs |-> IdleRun]
    /\ form = NoForm /\ sub = IdleSub /\ page = IdlePage

Init == InitIsInternalUrl \/ InitResolveRedirectPath \/ InitGET

\* --------------------------------------------------------------- actions

\* isInternalUrl(url) is called and returns.
CallIsInternalUrl ==
    /\ op = "isInternalUrl" /\ pc = "call"
    /\ ret' = Return(IsInternalUrl(url))
    /\ pc' = "returned"
    /\ UNCHANGED <<op, url, nextParam, allowedHosts, ret2, getInputs, run, form, sub, page>>

\* resolveRedirectPath(nextParam, allowedHosts) is called and completes.
CallResolveRedirectPath ==
    /\ op = "resolveRedirectPath" /\ pc = "call"
    /\ ret' = ResolveRedirectPath(nextParam, allowedHosts)
    /\ pc' = "returned"
    /\ UNCHANGED <<op, url, nextParam, allowedHosts, ret2, getInputs, run, form, sub, page>>

\* resolveRedirectPath is called on the string it returned.
CallResolveRedirectPathAgain ==
    /\ op = "resolveRedirectPath" /\ pc = "returned" /\ ~ret.threw
    /\ ret2' = ResolveRedirectPath(Some(ret.value), allowedHosts)
    /\ pc' = "again"
    /\ UNCHANGED <<op, url, nextParam, allowedHosts, ret, getInputs, run, form, sub, page>>

\* getSiteUrl() of ~/lib/url: the configured canonical site URL.
GetSiteUrl == env.siteUrl

\* GET, lines 75-79: the trusted hosts are the site URL's host alone.
AllowedHostsOfSite == << UrlHost(ParseURL(GetSiteUrl, NoBase)) >>

\* A variant of RedirectToTarget that echoes the forwarded host.
RedirectToTargetFromHeaders(r) ==
    HTTPS \o <<":","/","/">> \o headers[r].forwardedHost \o run[r].redirectPath

\* GET, lines 88-92: redirectToTarget().
RedirectToTarget(r) == GetSiteUrl \o run[r].redirectPath

\* GET, line 134: the error redirect.
ErrorRedirect(r) == GetSiteUrl \o AuthCodeError

\* response.cookies.set(name, value, options): a cookie of that name is
\* replaced, a new name is added.
SetCookie(jar, cookie) ==
    IF \E i \in 1..Len(jar) : jar[i].name = cookie.name
    THEN [i \in 1..Len(jar) |-> IF jar[i].name = cookie.name THEN cookie ELSE jar[i]]
    ELSE Append(jar, cookie)

\* cookies.forEach(...) of applyCookies, from the first queued cookie on.
RECURSIVE SetCookies(_, _)
SetCookies(jar, cookies) ==
    IF cookies = <<>> THEN jar
    ELSE SetCookies(SetCookie(jar, Head(cookies)), Tail(cookies))

\* cookies.forEach(...) from the last queued cookie back to the first.
RECURSIVE SetCookiesBackwards(_, _)
SetCookiesBackwards(jar, cookies) ==
    IF cookies = <<>> THEN jar
    ELSE SetCookiesBackwards(SetCookie(jar, cookies[Len(cookies)]),
                             SubSeq(cookies, 1, Len(cookies) - 1))

\* A variant of ApplyCookies that sets the cookies last to first.
ApplyCookiesBackwards(location, cookies) ==
    [sent |-> TRUE, location |-> location, cookies |-> SetCookiesBackwards(<<>>, cookies)]

\* applyCookies(response, cookies): every queued cookie is set on the
\* response, in queue order.
ApplyCookies(location, cookies) ==
    [sent |-> TRUE, location |-> location, cookies |-> SetCookies(<<>>, cookies)]

\* GET, lines 112-116 and 128-137: with a token hash and a valid type
\* verifyOtp is called and awaited; otherwise the error redirect is
\* returned with the cookies queued so far.
VerifyOrFail(r, s, queued) ==
    IF Truthy(request.tokenHash) /\ IsValidEmailOtpType(request.type)
    THEN [s EXCEPT !.pc = "otp", !.pendingCookies = queued,
                   !.calls = Append(@, "verifyOtp")]
    ELSE [s EXCEPT !.pc = "done", !.pendingCookies = queued,
                   !.response = ApplyCookies(ErrorRedirect(r), queued)]

\* GET, lines 97-98 and 112-114: the first auth call of a request whose
\* locals are s: a code is handed to exchangeCodeForSession; without a code
\* the handler goes to the OTP.
FirstAuthCall(r, s) ==
    IF Truthy(request.code)
    THEN [s EXCEPT !.pc = "exchange",
                   !.calls = Append(@, "exchangeCodeForSession")]
    ELSE VerifyOrFail(r, s, run[r].pendingCookies)

\* GET, lines 81-95: res is what resolveRedirectPath completed with.  The
\* redirect path is settled and the auth client is created, which throws
\* without its keys.
AfterResolve(r, hosts, res) ==
    IF res.threw \/ ~env.supabaseKeys
    THEN [run[r] EXCEPT !.pc = "threw", !.allowedHosts = hosts]
    ELSE FirstAuthCall(r, [run[r] EXCEPT !.allowedHosts = hosts,
                                         !.next = res.value,
                                         !.redirectPath = RedirectPath(res.value)])

\* GET, lines 68-98 and 112-114: up to the first await.  The parameters
\* are read, the redirect path is resolved, the auth client is created and
\* the first auth call is made; the handler yields.
GetStart(r) ==
    /\ op = "GET" /\ run[r].pc = "start"
    /\ run' = [run EXCEPT ![r] =
             AfterResolve(r, AllowedHostsOfSite,
                          ResolveRedirectPath(IF request.next.isNull
                                              THEN Some(<<"/">>)
                                              ELSE request.next,
                                              AllowedHostsOfSite))]
    /\ UNCHANGED <<op, fnVars, getInputs, form, sub, page>>

\* GET, lines 98-110: exchangeCodeForSession answers, or rejects and the
\* handler throws.  Without an error getUser is called and awaited; with
\* one the handler goes on to the OTP.
GetExchangeCode(r) ==
    /\ op = "GET" /\ run[r].pc = "exchange"
    /\ LET queued == run[r].pendingCookies \o auth.exchangeCookies
       IN  \/ run' = [run EXCEPT ![r].pc = "threw"]
           \/ run' = [run EXCEPT ![r] =
                 IF ~auth.exchangeError
                 THEN [@ EXCEPT !.pc = "user", !.pendingCookies = queued,
                                !.calls = Append(@, "getUser")]
                 ELSE VerifyOrFail(r, @, queued)]
    /\ UNCHANGED <<op, fnVars, getInputs, form, sub, page>>

\* GET, lines 114-131: verifyOtp answers, or rejects and the handler
\* throws.  Without an error getUser is called and awaited; with one the
\* error redirect is returned.
GetVerifyOtp(r) ==
    /\ op = "GET" /\ run[r].pc = "otp"
    /\ LET queued == run[r].pendingCookies \o auth.verifyCookies
       IN  \/ run' = [run EXCEPT ![r].pc = "threw"]
           \/ run' = [run EXCEPT ![r] =
                 IF ~auth.verifyError
                 THEN [@ EXCEPT !.pc = "user", !.pendingCookies = queued,
                                !.calls = Append(@, "getUser")]
                 ELSE [@ EXCEPT !.pc = "done", !.pendingCookies = queued,
                                !.response = ApplyCookies(ErrorRedirect(r), queued)]]
    /\ UNCHANGED <<op, fnVars, getInputs, form, sub, page>>

\* GET, lines 101-104 and 120-123: getUser answers and the target redirect
\* is returned with every queued cookie, or getUser rejects and the handler
\* throws.
GetUser(r) ==
    /\ op = "GET" /\ run[r].pc = "user"
    /\ LET queued == run[r].pendingCookies \o auth.userCookies
       IN  \/ run' = [run EXCEPT ![r].pc = "threw"]
           \/ run' = [run EXCEPT ![r] =
                 [@ EXCEPT !.pc = "done", !.pendingCookies = queued,
                           !.response = ApplyCookies(RedirectToTarget(r), queued)]]
    /\ UNCHANGED <<op, fnVars, getInputs, form, sub, page>>

\* The redirect resolver and the auth callback that uses it; the report
\* form and the machine page have their own specifications below.
Next ==
    \/ CallIsInternalUrl
    \/ CallResolveRedirectPath
    \/ CallResolveRedirectPathAgain
    \/ \E r \in Runs : GetStart(r)
    \/ \E r \in Runs : GetExchangeCode(r)
    \/ \E r \in Runs : GetVerifyOtp(r)
    \/ \E r \in Runs : GetUser(r)

Spec == Init /\ [][Next]_vars

\* The calls of resolveRedirectPath alone.
SpecResolveRedirectPath ==
    /\ InitResolveRedirectPath
    /\ [][CallResolveRedirectPath \/ CallResolveRedirectPathAgain]_vars

\* The calls of isInternalUrl alone.
SpecIsInternalUrl ==
    /\ InitIsInternalUrl
    /\ [][CallIsInternalUrl]_vars

\* The requests of the auth callback alone.
SpecGET ==
    /\ InitGET
    /\ [][\E r \in Runs : \/ GetStart(r) \/ GetExchangeCode(r)
                       \/ GetVerifyOtp(r) \/ GetUser(r)]_vars

\* --------------------------------------- actions of submitPublicIssueAction

\* Variant of SubmitHoneypot that never looks at the honeypot field.
SubmitHoneypotUnchecked ==
    /\ op = "submitPublicIssueAction" /\ sub.pc = "start"
    /\ sub' = [sub EXCEPT !.pc = "clientIp"]
    /\ UNCHANGED <<op, fnVars, getInputs, run, form, page>>

\* Lines 34-49: a filled honeypot field ends the action with the success
\* redirect before anything else runs; otherwise the action asks for the
\* client's address and waits.
SubmitHoneypot ==
    /\ op = "submitPublicIssueAction" /\ sub.pc = "start"
    /\ sub' = IF form.website # <<>>
              THEN Ends(sub, sub.calls, Redirect(ReportSuccess))
              ELSE [sub EXCEPT !.pc = "clientIp"]
    /\ UNCHANGED <<op, fnVars, getInputs, run, form, page>>

\* Lines 49-50: getClientIp settles; a rejection leaves the action, an
\* address is handed to checkPublicIssueLimit.
SubmitClientIp ==
    /\ op = "submitPublicIssueAction" /\ sub.pc = "clientIp"
    /\ LET called == Append(sub.calls, "getClientIp")
       IN  \/ \E e \in BackendErrors : sub' = Ends(sub, called, ThrowError(e))
           \/ sub' = [sub EXCEPT !.pc = "rateLimit", !.calls = called]
    /\ UNCHANGED <<op, fnVars, getInputs, run, form, page>>

\* Lines 50-57: checkPublicIssueLimit settles; a client over the limit is
\* redirected with the time left.
SubmitRateLimit ==
    /\ op = "submitPublicIssueAction" /\ sub.pc = "rateLimit"
    /\ LET called == Append(sub.calls, "checkPublicIssueLimit")
       IN  \/ \E e \in BackendErrors : sub' = Ends(sub, called, ThrowError(e))
           \/ \E t \in ResetTimes :
                 sub' = [Ends(sub, called,
                              RedirectWithError(TooManySubmissions(t)))
                            EXCEPT !.limited = TRUE]
           \/ sub' = [sub EXCEPT !.pc = "parse", !.calls = called]
    /\ UNCHANGED <<op, fnVars, getInputs, run, form, page>>

\* Lines 59-76: the form is parsed; a form that fails is answered with the
\* parse error.
SubmitParse ==
    /\ op = "submitPublicIssueAction" /\ sub.pc = "parse"
    /\ LET called == Append(sub.calls, "parsePublicIssueForm")
       IN  \/ \E e \in ParseErrors :
                 sub' = [Ends(sub, called, RedirectWithError(e))
                            EXCEPT !.parseError = e]
           \/ sub' = [sub EXCEPT !.pc = "createClient", !.calls = called]
    /\ UNCHANGED <<op, fnVars, getInputs, run, form, page>>

\* Lines 79-82: createClient settles; a rejection leaves the action, a
\* client is asked for the user.
SubmitCreateClient ==
    /\ op = "submitPublicIssueAction" /\ sub.pc = "createClient"
    /\ LET called == Append(sub.calls, "createClient")
       IN  \/ \E e \in BackendErrors : sub' = Ends(sub, called, ThrowError(e))
           \/ sub' = [sub EXCEPT !.pc = "getUser", !.calls = called]
    /\ UNCHANGED <<op, fnVars, getInputs, run, form, page>>

\* Lines 80-86: getUser settles; the signed-in user, if any, is the
\* reporter.
SubmitGetUser ==
    /\ op = "submitPublicIssueAction" /\ sub.pc = "getUser"
    /\ LET called == Append(sub.calls, "getUser")
       IN  \/ \E e \in BackendErrors : sub' = Ends(sub, called, ThrowError(e))
           \/ \E user \in BOOLEAN :
                 sub' = [sub EXCEPT !.pc = "reporter", !.calls = called,
                                    !.reportedBy = user]
    /\ UNCHANGED <<op, fnVars, getInputs, run, form, page>>

\* Variant of ExistingAccountFound that lets the report through under the
\* email of the existing account.
ExistingAccountAccepted(s, called) ==
    [s EXCEPT !.pc = "machine", !.calls = called, !.activeUser = "found",
              !.reporterEmail = form.email,
              !.reporterName = JoinName(form.firstName, form.lastName)]

\* Lines 97-106: a profile with the submitted email exists; the action
\* returns the existing-account error.
ExistingAccountFound(s, called) ==
    [Ends(s, called, ReturnError(ExistingAccount))
        EXCEPT !.activeUser = "found"]

\* Lines 88-114: an anonymous reporter is resolved from the email and the
\* name; the email of an existing account is refused.
SubmitResolveReporter ==
    /\ op = "submitPublicIssueAction" /\ sub.pc = "reporter"
    /\ LET called == Append(sub.calls, "userProfiles.findFirst(email)")
           name == JoinName(form.firstName, form.lastName)
       IN  IF sub.reportedBy
           THEN sub' = [sub EXCEPT !.pc = "machine"]
           ELSE IF form.email # <<>>
           THEN \/ \E e \in BackendErrors : sub' = Ends(sub, called, ThrowError(e))
                \/ sub' = ExistingAccountFound(sub, called)
                \/ sub' = [sub EXCEPT !.pc = "machine", !.calls = called,
                                      !.activeUser = "none",
                                      !.reporterEmail = form.email,
                                      !.reporterName = name]
           ELSE sub' = [sub EXCEPT !.pc = "machine", !.reporterName = name]
    /\ UNCHANGED <<op, fnVars, getInputs, run, form, page>>

\* Lines 116-124: the machine's initials are looked up; a missing machine
\* throws.
SubmitMachine ==
    /\ op = "submitPublicIssueAction" /\ sub.pc = "machine"
    /\ LET called == Append(sub.calls, "machines.findFirst")
       IN  \/ \E e \in BackendErrors : sub' = Ends(sub, called, ThrowError(e))
           \/ sub' = Ends(sub, called, ThrowError(MachineNotFound))
           \/ sub' = [sub EXCEPT !.pc = "priority", !.calls = called,
                                 !.machine = MachineInitials]
    /\ UNCHANGED <<op, fnVars, getInputs, run, form, page>>

\* Variant of IsMemberOrAdmin that accepts every role a profile can carry.
IsMemberOrAdminAnyRole(role) == role \in {"admin", "member", "guest"}

\* Lines 138-140: the profile's role is admin or member.
IsMemberOrAdmin(role) == role \in {"admin", "member"}

\* Lines 127-146: the submitted priority counts for members and admins
\* only.
FinalPriority(priority, isMemberOrAdmin) ==
    IF isMemberOrAdmin THEN priority ELSE "medium"

\* Lines 126-146: the role of a signed-in reporter is read and the priority
\* is settled.
SubmitPriority ==
    /\ op = "submitPublicIssueAction" /\ sub.pc = "priority"
    /\ LET called == Append(sub.calls, "userProfiles.findFirst(id)")
       IN  IF sub.reportedBy
           THEN \/ \E e \in BackendErrors : sub' = Ends(sub, called, ThrowError(e))
                \/ \E role \in Roles :
                      sub' = [sub EXCEPT
                                !.pc = "create", !.calls = called, !.role = role,
                                !.isMemberOrAdmin = IsMemberOrAdmin(role),
                                !.finalPriority =
                                    FinalPriority(form.priority, IsMemberOrAdmin(role))]
           ELSE sub' = [sub EXCEPT !.pc = "create",
                                   !.finalPriority = FinalPriority(form.priority, FALSE)]
    /\ UNCHANGED <<op, fnVars, getInputs, run, form, page>>

\* What createIssue is called with, lines 160-170.
CreateIssueArguments(s) ==
    [machineInitials |-> s.machine, priority |-> s.finalPriority,
     reportedBy |-> s.reportedBy, reporterName |-> s.reporterName,
     reporterEmail |-> s.reporterEmail]

\* Lines 159-214: the issue is created and the reporter is redirected; what
\* the try block throws goes through the catch block.
SubmitCreateIssue ==
    /\ op = "submitPublicIssueAction" /\ sub.pc = "create"
    /\ LET called == Append(sub.calls, "createIssue")
           args == <<CreateIssueArguments(sub)>>
       IN  \/ \E e \in BackendErrors :
                 sub' = [Ends(sub, called, CatchSubmit(ThrowError(e)))
                            EXCEPT !.created = args, !.raised = ThrowError(e)]
           \/ sub' = [Ends(sub, called, CatchSubmit(Redirect(ReportSuccess)))
                         EXCEPT !.created = args, !.raised = Redirect(ReportSuccess)]
           \/ \E n \in IssueNumbers :
                 LET target == IF sub.reportedBy THEN IssueUrl(sub.machine, n)
                               ELSE SuccessUrl(sub.reporterEmail, sub.reporterName,
                                               sub.reportedBy)
                 IN  sub' = [Ends(sub, Append(called, "revalidatePath"),
                                  CatchSubmit(Redirect(target)))
                                EXCEPT !.created = args]
    /\ UNCHANGED <<op, fnVars, getInputs, run, form, page>>

InitSubmit ==
    /\ op = "submitPublicIssueAction"
    /\ form \in Forms
    /\ sub = IdleSub
    /\ page = IdlePage
    /\ url = <<>> /\ nextParam = Null /\ allowedHosts = <<>>
    /\ pc = "call" /\ ret = NoReturn /\ ret2 = NoReturn
    /\ request = NoRequest /\ env = NoEnv /\ auth = NoAuth
    /\ headers = [r \in Runs |-> NoHeaders]
    /\ run = [r \in Runs |-> IdleRun]

NextSubmit ==
    \/ SubmitHoneypot
    \/ SubmitClientIp
    \/ SubmitRateLimit
    \/ SubmitParse
    \/ SubmitCreateClient
    \/ SubmitGetUser
    \/ SubmitResolveReporter
    \/ SubmitMachine
    \/ SubmitPriority
    \/ SubmitCreateIssue

SpecSubmit == InitSubmit /\ [][NextSubmit]_vars

\* Line 170: the route parameters settle; the auth client is asked for.
PageParams(r) ==
    /\ op = "MachineDetailPage" /\ page.out[r].pc = "start"
    /\ \/ \E e \in BackendErrors :
             page' = [page EXCEPT !.out[r].pc = "threw", !.out[r].text = e]
       \/ page' = [page EXCEPT !.out[r].pc = "createClient"]
    /\ UNCHANGED <<op, fnVars, getInputs, run, form, sub>>

\* Lines 173-176: createClient settles; the client is asked for the user.
PageCreateClient(r) ==
    /\ op = "MachineDetailPage" /\ page.out[r].pc = "createClient"
    /\ \/ \E e \in BackendErrors :
             page' = [page EXCEPT !.out[r].pc = "threw", !.out[r].text = e]
       \/ page' = [page EXCEPT !.out[r].pc = "getUser"]
    /\ UNCHANGED <<op, fnVars, getInputs, run, form, sub>>

\* Lines 174-216: getUser settles; a visitor who is not signed in is sent
\* to the login page with the machine's page as next, a signed-in visitor's
\* queries are started and the profile is waited for.
PageGetUser(r) ==
    /\ op = "MachineDetailPage" /\ page.out[r].pc = "getUser"
    /\ \/ \E e \in BackendErrors :
             page' = [page EXCEPT !.out[r].pc = "threw", !.out[r].text = e]
       \/ page' = [page EXCEPT
                     !.out[r].pc = IF page.user THEN "profile" ELSE "redirected",
                     !.out[r].text =
                         IF page.user THEN @
                         ELSE <<"/","l","o","g","i","n","?","n","e","x","t","=">>
                              \o EncodeURIComponent(<<"/","m","/">> \o page.initials)]
    /\ UNCHANGED <<op, fnVars, getInputs, run, form, sub>>

\* Lines 216-241: the profile settles; the machine is looked up.
PageProfile(r) ==
    /\ op = "MachineDetailPage" /\ page.out[r].pc = "profile"
    /\ \/ \E e \in BackendErrors :
             page' = [page EXCEPT !.out[r].pc = "threw", !.out[r].text = e]
       \/ page' = [page EXCEPT !.out[r].pc = "machine"]
    /\ UNCHANGED <<op, fnVars, getInputs, run, form, sub>>

\* Lines 224-246: the machine lookup settles; the issue queries are waited
\* for.
PageMachine(r) ==
    /\ op = "MachineDetailPage" /\ page.out[r].pc = "machine"
    /\ \/ \E e \in BackendErrors :
             page' = [page EXCEPT !.out[r].pc = "threw", !.out[r].text = e]
       \/ page' = [page EXCEPT !.out[r].pc = "issues"]
    /\ UNCHANGED <<op, fnVars, getInputs, run, form, sub>>

\* Lines 243-265: the issue queries settle; a page for a missing machine is
\* a 404, an admin's page asks for the users, any other page for the
\* request's headers.
PageIssues(r) ==
    /\ op = "MachineDetailPage" /\ page.out[r].pc = "issues"
    /\ \/ \E e \in BackendErrors :
             page' = [page EXCEPT !.out[r].pc = "threw", !.out[r].text = e]
       \/ page' = [page EXCEPT
                     !.out[r].pc = IF page.initials \notin PageMachines THEN "notFound"
                                   ELSE IF page.role = "admin" THEN "users"
                                   ELSE "headers"]
    /\ UNCHANGED <<op, fnVars, getInputs, run, form, sub>>

\* Lines 258-265: getUnifiedUsers settles; the request's headers are asked
\* for.
PageUnifiedUsers(r) ==
    /\ op = "MachineDetailPage" /\ page.out[r].pc = "users"
    /\ \/ \E e \in BackendErrors :
             page' = [page EXCEPT !.out[r].pc = "threw", !.out[r].text = e]
       \/ page' = [page EXCEPT !.out[r].pc = "headers"]
    /\ UNCHANGED <<op, fnVars, getInputs, run, form, sub>>

\* Lines 265-273: the headers settle; the report URL is built on the URL
\* the request was made to and its QR code is asked for.
PageRequestHeaders(r) ==
    /\ op = "MachineDetailPage" /\ page.out[r].pc = "headers"
    /\ \/ \E e \in BackendErrors :
             page' = [page EXCEPT !.out[r].pc = "threw", !.out[r].text = e]
       \/ page' = [page EXCEPT
                     !.out[r].pc = "qr",
                     !.out[r].reportUrl =
                         BuildMachineReportUrl(ResolveRequestUrl(headers[r]),
                                               page.initials, <<"q","r">>)]
    /\ UNCHANGED <<op, fnVars, getInputs, run, form, sub>>

\* Line 273: the QR code settles; the page is rendered.
PageQrCode(r) ==
    /\ op = "MachineDetailPage" /\ page.out[r].pc = "qr"
    /\ \/ \E e \in BackendErrors :
             page' = [page EXCEPT !.out[r].pc = "threw", !.out[r].text = e]
       \/ page' = [page EXCEPT
                     !.out[r].pc = "rendered",
                     !.out[r].qrDataUrl = GenerateQrPngDataUrl(page.out[r].reportUrl)]
    /\ UNCHANGED <<op, fnVars, getInputs, run, form, sub>>

\* Two requests for the same initials by the same visitor under the same
\* configuration, each with its own headers; the forwarded host may be
\* absent.  A visitor who is not signed in has no profile.  Each request
\* yields at its awaits and the other goes on.
InitPage ==
    /\ op = "MachineDetailPage"
    /\ page \in {[IdlePage EXCEPT !.initials = m, !.user = u, !.role = role] :
                   m \in PageMachines \cup {<<"Z","Z">>},
                   u \in BOOLEAN, role \in Roles}
    /\ page.user \/ page.role = "none"
    /\ env \in [siteUrl : SiteUrls, supabaseKeys : {TRUE}]
    /\ headers \in [Runs -> [host : HeaderValues,
                             forwardedHost : HeaderValues \cup {<<>>}]]
    /\ form = NoForm /\ sub = IdleSub
    /\ url = <<>> /\ nextParam = Null /\ allowedHosts = <<>>
    /\ pc = "call" /\ ret = NoReturn /\ ret2 = NoReturn
    /\ request = NoRequest /\ auth = NoAuth
    /\ run = [r \in Runs |-> IdleRun]

SpecPage ==
    /\ InitPage
    /\ [][\E r \in Runs : \/ PageParams(r) \/ PageCreateClient(r) \/ PageGetUser(r)
                       \/ PageProfile(r) \/ PageMachine(r) \/ PageIssues(r)
                       \/ PageUnifiedUsers(r) \/ PageRequestHeaders(r)
                       \/ PageQrCode(r)]_vars

\* ---------------------------------------------------------------- claims

\* resolveRedirectPath has just returned (or thrown) in this state; the call
\* that may follow leaves its candidate, its list and its result as they are.
Resolved == op = "resolveRedirectPath" /\ pc = "returned"

\* The candidate is a string that is not an internal path.
External == ~nextParam.isNull /\ ~IsInternalUrl(nextParam.str)

\* new URL(candidate, "http://localhost").
Parsed == ParseURL(nextParam.str, DummyBase)

\* The origins a browser may hold the returned path against.
CanonicalOrigins == {ParseURL(s, NoBase) : s \in SiteUrls}

\* A browser resolves path against origin, reading "\" like "/", and stays
\* on origin or lands on a trusted host.
StaysOnTrustedOrigin(target, origin, trusted) ==
    target.ok =>
        \/ target.scheme = origin.scheme /\ UrlHost(target) = UrlHost(origin)
        \/ Includes(trusted, UrlHost(target))

\* C1: whatever the candidate and the trusted hosts, a browser that resolves
\* the returned string against the canonical origin, reading "\" like "/",
\* stays on that origin or on a trusted one.
C1_NoForeignOrigin ==
    Resolved =>
        /\ ~ret.threw
        /\ \A o \in CanonicalOrigins :
              StaysOnTrustedOrigin(ParseURL(ret.value, o), o, allowedHosts)

\* C2: for every candidate and every trusted-host list the returned string
\* is non-empty, starts with "/" and does not start with "//".
C2_SafePathShape ==
    Resolved =>
        /\ ~ret.threw
        /\ ret.value # <<>>
        /\ ret.value[1] = "/"
        /\ (Len(ret.value) >= 2 => ret.value[2] # "/")

\* An absolute candidate with a trusted host was resolved to its path.
C2_Witness ==
    /\ Resolved /\ External
    /\ Parsed.ok /\ Includes(allowedHosts, UrlHost(Parsed))
    /\ StartsWith(nextParam.str, HTTPS)
    /\ ret.value # Fallback

\* C3: a candidate that is not an internal path and whose parsed host (with
\* its port) is not in the trusted-host list resolves to the fallback "/".
C3_UntrustedHostFallsBack ==
    (Resolved /\ External) =>
        LET parsed == Parsed
        IN  (parsed.ok /\ ~Includes(allowedHosts, UrlHost(parsed)))
                => ret = Return(Fallback)

\* A trusted host name with an untrusted port fell back; the candidate
\* carries an "@", which the parser leaves out of the host.
C3_Witness ==
    /\ Resolved /\ External /\ Parsed.ok
    /\ ~Includes(allowedHosts, UrlHost(Parsed))
    /\ Includes(allowedHosts, Parsed.host)
    /\ Parsed.port # NoPort
    /\ \E i \in 1..Len(nextParam.str) : nextParam.str[i] = "@"
    /\ ret = Return(Fallback)

\* The host of an origin string "scheme://host[:port]", read off its text.
HostOfOrigin(origin) == From(origin, FirstIn(origin, {"/"}) + 2)

\* C4: in GET the trusted hosts are the one host of the configured site URL,
\* every Location is the site URL followed by a path, and two requests that
\* differ only in their headers get the same Location.
C4_CanonicalOriginOnly ==
    op = "GET" =>
        /\ \A r \in Runs :
              /\ run[r].pc # "start" => run[r].allowedHosts = <<HostOfOrigin(env.siteUrl)>>
              /\ run[r].response.sent =>
                    /\ StartsWith(run[r].response.location, env.siteUrl \o <<"/">>)
                    /\ From(run[r].response.location, Len(env.siteUrl) + 1)
                          \in {run[r].redirectPath, AuthCodeError}
        /\ (run[1].response.sent /\ run[2].response.sent)
              => run[1].response.location = run[2].response.location

\* Two requests with different headers were both redirected to the target.
C4_Witness ==
    /\ op = "GET"
    /\ headers[1] # headers[2]
    /\ headers[2].forwardedHost # HostOfOrigin(env.siteUrl)
    /\ run[1].response.sent /\ run[2].response.sent
    /\ run[2].response.location = env.siteUrl \o run[2].redirectPath
    /\ run[2].redirectPath # Fallback

\* C5: a candidate that is an internal path is returned unchanged, query
\* string and fragment included, whatever the trusted-host list.
C5_InternalPathUnchanged ==
    (Resolved /\ ~nextParam.isNull /\ IsInternalUrl(nextParam.str))
        => ret = Return(nextParam.str)

\* An internal path with a query and a fragment came back under no trusted host.
C5_Witness ==
    /\ Resolved /\ ~nextParam.isNull /\ IsInternalUrl(nextParam.str)
    /\ allowedHosts = <<>>
    /\ \E i, j \in 1..Len(nextParam.str) :
          /\ i + 1 < j /\ j < Len(nextParam.str)
          /\ nextParam.str[i] = "?" /\ nextParam.str[j] = "#"
    /\ ret.value = nextParam.str

\* The candidate with http exchanged for https, and https for http.
OtherScheme(s) ==
    IF StartsWith(s, HTTPS \o <<":","/","/">>) THEN HTTP \o From(s, 6)
    ELSE IF StartsWith(s, HTTP \o <<":","/","/">>) THEN HTTPS \o From(s, 5)
    ELSE s

\* The case of C6: the host is trusted and the path passes isInternalUrl.
TrustedAbsolute(s, trusted) ==
    /\ ~IsInternalUrl(s)
    /\ LET parsed == ParseURL(s, DummyBase)
       IN  /\ parsed.ok
           /\ Includes(trusted, UrlHost(parsed))
           /\ IsInternalUrl(NormalizedPath(parsed))

\* C6: a candidate that is not internal, whose host is trusted and whose
\* pathname+query+fragment passes isInternalUrl resolves to exactly that
\* string, which carries no scheme and no authority, and to the same string
\* when http:// is exchanged for https:// and the host is trusted there too.
C6_TrustedAbsoluteToPath ==
    (Resolved /\ ~nextParam.isNull /\ TrustedAbsolute(nextParam.str, allowedHosts)) =>
        /\ LET parsed == Parsed
           IN  ret = Return(UrlPathname(parsed) \o UrlSearch(parsed) \o UrlHash(parsed))
        /\ SchemeEnd(ret.value) = 0
        /\ ~StartsWith(ret.value, <<"/", "/">>)
        /\ TrustedAbsolute(OtherScheme(nextParam.str), allowedHosts)
              => ResolveRedirectPath(Some(OtherScheme(nextParam.str)), allowedHosts) = ret

\* An https:// candidate with a trusted host, a path and a query was
\* resolved, and so is its http:// twin.
C6_Witness ==
    /\ Resolved /\ ~nextParam.isNull /\ TrustedAbsolute(nextParam.str, allowedHosts)
    /\ StartsWith(nextParam.str, HTTPS \o <<":","/","/">>)
    /\ TrustedAbsolute(OtherScheme(nextParam.str), allowedHosts)
    /\ UrlSearch(Parsed) # <<>>
    /\ Len(UrlPathname(Parsed)) > 1
    /\ ret.value = UrlPathname(Parsed) \o UrlSearch(Parsed)

\* C7: resolveRedirectPath never throws, and a candidate that the URL
\* constructor rejects resolves to the fallback "/".
C7_NeverThrows ==
    Resolved =>
        /\ ~ret.threw
        /\ (External /\ nextParam.str # <<>> /\ ~Parsed.ok) => ret.value = Fallback

\* A candidate the URL constructor rejects was resolved.
C7_Witness ==
    /\ Resolved /\ External /\ nextParam.str # <<>> /\ ~Parsed.ok
    /\ allowedHosts # <<>>
    /\ ret = Return(Fallback)

\* C8: a null candidate and the empty string resolve to "/" under every
\* trusted-host list, and so does an absent next parameter in GET.
C8_NullAndEmptyFallBack ==
    /\ (Resolved /\ (nextParam.isNull \/ nextParam.str = <<>>)) => ret = Return(Fallback)
    /\ op = "GET" =>
          \A r \in Runs :
              (request.next.isNull /\ run[r].pc \notin {"start", "threw"})
                  => run[r].next = Fallback /\ run[r].redirectPath = Fallback

\* A null candidate was resolved under a list of two trusted hosts.
C8_Witness ==
    /\ Resolved /\ nextParam.isNull /\ Len(allowedHosts) = 2
    /\ ret.value = Fallback

\* C9: resolveRedirectPath applied to its own result, under the same
\* trusted hosts, returns that result.
C9_Idempotent ==
    (op = "resolveRedirectPath" /\ pc = "again") => ret2 = ret

\* The path of a trusted absolute URL was resolved a second time.
C9_Witness ==
    /\ op = "resolveRedirectPath" /\ pc = "again"
    /\ External /\ SchemeEnd(nextParam.str) > 0 /\ ret.value # Fallback
    /\ ret2.value = ret.value

\* isInternalUrl has returned in this state.
Tested == op = "isInternalUrl" /\ pc = "returned"

\* One "/" followed by a character that is not "/", and no ":" before the
\* first "/".
OneSlashThenOther(s) ==
    /\ Len(s) >= 2 /\ s[1] = "/" /\ s[2] # "/"
    /\ ~\E i \in 1..(FirstIn(s, {"/"}) - 1) : s[i] = ":"

\* C10 as stated: isInternalUrl holds exactly of the strings that start with
\* one "/" followed by another character, of "/" and of the empty string.
C10_AsStated ==
    Tested =>
        /\ ~ret.threw
        /\ ret.value = (OneSlashThenOther(url) \/ url = <<>> \/ url = <<"/">>)

\* C10, amended: isInternalUrl holds exactly of the strings that start with
\* one "/" followed by another character and of "/"; of every other string,
\* the empty string included, it is false; it never throws.
C10_InternalIffOneSlash ==
    Tested =>
        /\ ~ret.threw
        /\ ret.value = (OneSlashThenOther(url) \/ url = <<"/">>)

\* isInternalUrl answered false for the empty string.
C10_Witness == Tested /\ url = <<>> /\ ret.value = FALSE

\* C11: isInternalUrl is false of every string that does not start with "/":
\* the empty string, URLs with a scheme, schemeless relative strings.
C11_NoLeadingSlashIsExternal ==
    (Tested /\ ~StartsWith(url, <<"/">>)) => ret = Return(FALSE)

\* isInternalUrl answered false for a javascript: URL.
C11_Witness ==
    /\ Tested /\ StartsWith(url, JAVASCRIPT \o <<":">>) /\ Len(url) > Len(JAVASCRIPT) + 1
    /\ ret = Return(FALSE)

\* C12: isInternalUrl is false of every string that starts with "//",
\* whatever follows.
C12_ProtocolRelativeIsExternal ==
    (Tested /\ StartsWith(url, <<"/", "/">>)) => ret = Return(FALSE)

\* isInternalUrl answered false for "//localhost/..." and for "//a...".
C12_Witness ==
    /\ Tested /\ ret = Return(FALSE)
    /\ \/ StartsWith(url, <<"/","/">> \o LOCALHOST \o <<"/","a">>)
       \/ StartsWith(url, <<"/","/","a","/">>)

\* submitPublicIssueAction has ended in this state.
Submitted == op = "submitPublicIssueAction" /\ sub.pc = "done"

\* t occurs in s.
Contains(s, t) ==
    \E i \in 0..(Len(s) - Len(t)) : SubSeq(s, i + 1, i + Len(t)) = t

\* C13: when createIssue rejects with an error that is not a redirect
\* signal, the action returns the one generic message, whatever the error,
\* and the message holds none of the error's text.
C13_GenericErrorOnCreateFailure ==
    (Submitted /\ sub.raised.kind = "throw") =>
        /\ sub.outcome = ReturnError(GenericError)
        /\ ~Contains(sub.outcome.text, sub.raised.text)

\* createIssue was called, rejected with a backend error, and the generic
\* message was returned.
C13_Witness ==
    /\ Submitted /\ sub.calls # <<>> /\ sub.calls[Len(sub.calls)] = "createIssue"
    /\ sub.raised.kind = "throw" /\ sub.raised.text \in BackendErrors
    /\ sub.outcome.kind = "return" /\ sub.outcome.text = GenericError

\* C14: whichever step fails, no exception other than a redirect signal
\* leaves the action, and no backend error text is returned.
C14_NoErrorEscapes ==
    Submitted =>
        /\ sub.outcome.kind # "throw"
        /\ sub.outcome.kind = "return" => sub.outcome.text \notin BackendErrors

\* Both requests for the machine's page have been rendered.
BothRendered ==
    op = "MachineDetailPage" /\ \A r \in Runs : page.out[r].pc = "rendered"

\* C15: the report URL in the QR code is built on the configured site URL;
\* two requests for one machine that differ in their Host and
\* X-Forwarded-Host headers get the same report URL and QR code.
C15_QrFromCanonicalUrl ==
    BothRendered =>
        /\ page.out[1].reportUrl = page.out[2].reportUrl
        /\ page.out[1].qrDataUrl = page.out[2].qrDataUrl
        /\ \A r \in Runs : StartsWith(page.out[r].reportUrl, GetSiteUrl)

\* C16: a candidate whose host is trusted but whose pathname+query+fragment
\* fails isInternalUrl (a pathname that starts with "//") resolves to "/",
\* not to the reconstructed string.  The candidates are those that reach
\* the host test of line 41: an internal path names no host and is returned
\* at lines 31-33 before anything is parsed.
C16_TrustedHostBadPathFallsBack ==
    (Resolved /\ External) =>
        LET parsed == Parsed
        IN  (/\ parsed.ok
             /\ Includes(allowedHosts, UrlHost(parsed))
             /\ ~IsInternalUrl(NormalizedPath(parsed)))
            => (ret = Return(Fallback) /\ ret.value # NormalizedPath(parsed))

\* "http://a//..." under a list that trusts a resolved to "/": the host is
\* in the list, the reconstructed string starts with "//" and has more
\* after it, and it was not returned.
C16_Witness ==
    /\ Resolved /\ External /\ Parsed.ok
    /\ StartsWith(nextParam.str, HTTP \o <<":","/","/","a","/","/">>)
    /\ Includes(allowedHosts, UrlHost(Parsed))
    /\ StartsWith(NormalizedPath(Parsed), <<"/","/">>)
    /\ Len(NormalizedPath(Parsed)) > 2
    /\ ret = Return(Fallback)

\* The calls a request of the auth callback has made.
Called(r, name) == \E i \in 1..Len(run[r].calls) : run[r].calls[i] = name

\* The email OTP types, as the claims list them.
ClaimedOtpTypes ==
    { <<"s","i","g","n","u","p">>, <<"i","n","v","i","t","e">>, <<"m","a","g","i","c","l","i","n","k">>,
      <<"r","e","c","o","v","e","r","y">>, <<"e","m","a","i","l","_","c","h","a","n","g","e">>, <<"e","m","a","i","l">> }

\* The code exchange returned without error; the OTP verification did.
ExchangeSucceeded == Truthy(request.code) /\ ~auth.exchangeError

VerifySucceeded ==
    /\ ~ExchangeSucceeded
    /\ Truthy(request.tokenHash)
    /\ ~request.type.isNull /\ request.type.str \in ClaimedOtpTypes
    /\ ~auth.verifyError

\* C17: GET redirects to the resolved target exactly in a request whose
\* code exchange or OTP verification returned without error, and to the
\* site URL + "/auth/auth-code-error" in every other request, whatever next
\* is; a request that got past the creation of the auth client throws
\* nothing afterwards, has sent no response before it ends and one redirect
\* when it has ended.
C17_TargetOnlyAfterAuth ==
    op = "GET" =>
        \A r \in Runs :
            /\ run[r].pc = "threw" => run[r].calls = <<>>
            /\ run[r].pc \in {"start", "threw", "exchange", "otp", "user"} => ~run[r].response.sent
            /\ run[r].pc = "done" =>
                  /\ run[r].response.sent
                  /\ run[r].response.location =
                        IF ExchangeSucceeded \/ VerifySucceeded
                        THEN env.siteUrl \o run[r].redirectPath
                        ELSE env.siteUrl \o <<"/","a","u","t","h","/","a","u","t","h","-","c","o","d","e","-","e","r","r","o","r">>

\* C18: the code exchange, when a code is given, comes before the OTP
\* verification; verifyOtp is never called once the exchange has succeeded,
\* and it is called exactly when there is no code or the exchange failed,
\* the token hash is non-empty and the type is an email OTP type.
C18_ExchangeBeforeVerify ==
    op = "GET" =>
        \A r \in Runs :
            /\ Called(r, "verifyOtp") =>
                  /\ ~ExchangeSucceeded
                  /\ Truthy(request.code) =>
                        \E i, j \in 1..Len(run[r].calls) :
                            /\ i < j
                            /\ run[r].calls[i] = "exchangeCodeForSession"
                            /\ run[r].calls[j] = "verifyOtp"
            /\ run[r].pc = "done" =>
                  /\ Called(r, "exchangeCodeForSession") = Truthy(request.code)
                  /\ Called(r, "verifyOtp") =
                        (/\ ~Truthy(request.code) \/ auth.exchangeError
                         /\ Truthy(request.tokenHash)
                         /\ ~request.type.isNull /\ request.type.str \in ClaimedOtpTypes)

\* A request whose code exchange failed went on to verify an email_change
\* token.
C18_Witness ==
    /\ op = "GET" /\ run[1].pc = "done"
    /\ request.type = Some(<<"e","m","a","i","l","_","c","h","a","n","g","e">>)
    /\ Len(run[1].calls) >= 2
    /\ run[1].calls[1] = "exchangeCodeForSession" /\ run[1].calls[2] = "verifyOtp"

\* decodeURIComponent(s), over the escapes encodeURIComponent writes.
RECURSIVE DecodeURIComponent(_)
DecodeURIComponent(s) ==
    IF s = <<>> THEN <<>>
    ELSE IF s[1] = "%" /\ Len(s) >= 3
    THEN LET code == <<s[2], s[3]>>
             char == CASE code = <<"2","F">> -> "/"
                       [] code = <<"5","C">> -> "\\"
                       [] code = <<"3","A">> -> ":"
                       [] code = <<"3","F">> -> "?"
                       [] code = <<"2","3">> -> "#"
                       [] code = <<"4","0">> -> "@"
                       [] code = <<"2","B">> -> "+"
                       [] code = <<"0","9">> -> "\t"
                       [] code = <<"0","A">> -> "\n"
                       [] OTHER -> "\r"
         IN  <<char>> \o DecodeURIComponent(From(s, 4))
    ELSE <<s[1]>> \o DecodeURIComponent(From(s, 2))

\* C19: the redirect path is "/auth/loading?next=" followed by the
\* URI-encoded safe path exactly when the safe path is "/reset-password",
\* and the safe path itself otherwise (a query or fragment after
\* "/reset-password" included); decoding the next parameter of the loading
\* path gives the safe path back; the success redirect goes to that path.
C19_LoadingScreenForResetPassword ==
    op = "GET" =>
        \A r \in Runs :
            run[r].pc \in {"exchange", "otp", "user", "done"} =>
                /\ IF run[r].next = <<"/","r","e","s","e","t","-","p","a","s","s","w","o","r","d">>
                   THEN /\ StartsWith(run[r].redirectPath, <<"/","a","u","t","h","/","l","o","a","d","i","n","g","?","n","e","x","t","=">>)
                        /\ DecodeURIComponent(From(run[r].redirectPath, Len(<<"/","a","u","t","h","/","l","o","a","d","i","n","g","?","n","e","x","t","=">>) + 1))
                              = run[r].next
                        /\ \A i \in (Len(<<"/","a","u","t","h","/","l","o","a","d","i","n","g","?","n","e","x","t","=">>) + 1)..Len(run[r].redirectPath) :
                              run[r].redirectPath[i] \notin {"/", "?", "#", "&", "="}
                   ELSE run[r].redirectPath = run[r].next
                /\ (run[r].pc = "done" /\ (ExchangeSucceeded \/ VerifySucceeded)) =>
                      run[r].response.location = env.siteUrl \o run[r].redirectPath

\* An absolute URL of the site's own /reset-password was sent through the
\* loading screen after a successful exchange.
C19_Witness ==
    /\ op = "GET" /\ run[1].pc = "done" /\ ExchangeSucceeded
    /\ ~request.next.isNull /\ StartsWith(request.next.str, HTTPS)
    /\ run[1].next = <<"/","r","e","s","e","t","-","p","a","s","s","w","o","r","d">>
    /\ run[1].response.location
          = env.siteUrl \o <<"/","a","u","t","h","/","l","o","a","d","i","n","g","?","n","e","x","t","=">> \o <<"%","2","F","r","e","s","e","t","-","p","a","s","s","w","o","r","d">>

\* The cookies the auth client has queued in a request, from what it
\* answered to the calls made.
QueuedCookies(r) ==
    (IF Called(r, "exchangeCodeForSession") THEN auth.exchangeCookies ELSE <<>>)
    \o (IF Called(r, "verifyOtp") THEN auth.verifyCookies ELSE <<>>)
    \o (IF Called(r, "getUser") THEN auth.userCookies ELSE <<>>)

\* The last cookie of that name in a queue.
LastQueued(queue, name) ==
    queue[CHOOSE i \in 1..Len(queue) :
            /\ queue[i].name = name
            /\ \A j \in (i + 1)..Len(queue) : queue[j].name # name]

\* C20: the response of an ended request, target or error redirect,
\* carries every cookie queued through setAll during the request: each
\* queued name is on the response once, with the value and options queued
\* last under that name, and no other cookie is on it.
C20_QueuedCookiesOnEveryResponse ==
    op = "GET" =>
        \A r \in Runs :
            run[r].pc = "done" =>
                LET queue == QueuedCookies(r)
                    jar == run[r].response.cookies
                IN  /\ run[r].pendingCookies = queue
                    /\ \A i \in 1..Len(queue) :
                          \E k \in 1..Len(jar) : jar[k] = LastQueued(queue, queue[i].name)
                    /\ \A k \in 1..Len(jar) :
                          /\ \E i \in 1..Len(queue) : queue[i].name = jar[k].name
                          /\ \A l \in 1..Len(jar) : jar[l].name = jar[k].name => l = k

\* Both calls failed, both queued cookies, and the error redirect carries
\* the two names with the values queued last.
C20_Witness ==
    /\ op = "GET" /\ run[1].pc = "done"
    /\ auth.exchangeError /\ auth.verifyError
    /\ Len(QueuedCookies(1)) = 4
    /\ run[1].response.location = env.siteUrl \o <<"/","a","u","t","h","/","a","u","t","h","-","c","o","d","e","-","e","r","r","o","r">>
    /\ Len(run[1].response.cookies) = 2
    /\ \E k \in 1..2 : run[1].response.cookies[k] = Cookie("sb", "3", "none")

\* ------------------------------------------ submitPublicIssueAction claims

\* A call the action has made so far.
SubCalled(name) == \E i \in 1..Len(sub.calls) : sub.calls[i] = name

\* C21: the priority createIssue is called with is the submitted priority
\* only for a signed-in reporter whose profile role is admin or member; for
\* an anonymous reporter, a guest and a signed-in reporter without a profile
\* row it is "medium".
C21_PriorityOnlyForMembers ==
    sub.created # <<>> =>
        sub.created[1].priority =
            IF sub.reportedBy /\ sub.role \in {"admin", "member"}
            THEN form.priority
            ELSE "medium"

C21_Witness ==
    /\ Submitted /\ sub.created # <<>>
    /\ sub.reportedBy /\ sub.role = "guest"
    /\ form.priority = "high" /\ sub.created[1].priority = "medium"

\* C22: an anonymous reporter whose email belongs to an existing profile
\* gets the existing-account error, and that run looks up no machine and
\* never calls createIssue; a signed-in reporter is never put to this check.
C22_ExistingAccountBlocked ==
    /\ (~sub.reportedBy /\ sub.activeUser = "found") =>
          /\ Submitted
          /\ sub.outcome.kind = "return"
          /\ Contains(sub.outcome.text,
                      <<"e","m","a","i","l"," ","i","s"," ","a","s","s","o","c","i","a","t","e","d"," ","w","i","t","h"," ","a","n"," ","e","x","i","s","t","i","n","g"," ","a","c","c","o","u","n","t">>)
          /\ ~SubCalled("machines.findFirst")
          /\ ~SubCalled("createIssue")
          /\ sub.created = <<>>
    /\ sub.reportedBy =>
          /\ sub.activeUser = "unasked"
          /\ ~SubCalled("userProfiles.findFirst(email)")
          /\ ~(/\ sub.outcome.kind = "return"
               /\ Contains(sub.outcome.text,
                           <<"e","m","a","i","l"," ","i","s"," ","a","s","s","o","c","i","a","t","e","d"," ","w","i","t","h"," ","a","n"," ","e","x","i","s","t","i","n","g"," ","a","c","c","o","u","n","t">>))

C22_Witness ==
    /\ Submitted /\ ~sub.reportedBy /\ form.email # <<>>
    /\ sub.activeUser = "found"
    /\ sub.calls[Len(sub.calls)] = "userProfiles.findFirst(email)"
    /\ sub.outcome.kind = "return"

\* C23: a filled honeypot field redirects to /report/success with no
\* rate-limit check, no form parsing, no database lookup and no createIssue
\* call, and the client sees what a successful anonymous submission without
\* contact details shows.
C23_HoneypotSilentSuccess ==
    /\ (form.website # <<>> /\ sub.pc # "start") =>
          /\ Submitted
          /\ sub.outcome = Redirect(<<"/","r","e","p","o","r","t","/","s","u","c","c","e","s","s">>)
          /\ sub.calls = <<>>
          /\ sub.created = <<>>
    /\ (/\ Submitted /\ form.website = <<>> /\ ~sub.reportedBy
        /\ form.email = <<>> /\ form.firstName = <<>> /\ form.lastName = <<>>
        /\ SubCalled("revalidatePath")) =>
          sub.outcome = Redirect(<<"/","r","e","p","o","r","t","/","s","u","c","c","e","s","s">>)

C23_Witness ==
    /\ Submitted /\ form.website # <<>>
    /\ sub.outcome.kind = "redirect" /\ sub.calls = <<>>

\* C24: a failed rate-limit check redirects to /report?error= followed by
\* the form-encoded message and createIssue is never called in that run;
\* the rate-limit check comes before form parsing and before every database
\* access; a failed form parse redirects with the parse error, again with
\* no createIssue call.
C24_RateLimitBeforeEverything ==
    /\ sub.limited =>
          /\ Submitted
          /\ sub.outcome = Redirect(<<"/","r","e","p","o","r","t","?","e","r","r","o","r","=","T","o","o","+","m","a","n","y","+","s","u","b","m","i","s","s","i","o","n","s",".","+","P","l","e","a","s","e","+","t","r","y","+","a","g","a","i","n","+","i","n","+","1","0","+","m","i","n","u","t","e","s",".">>)
          /\ ~SubCalled("createIssue") /\ sub.created = <<>>
    /\ \A i \in 1..Len(sub.calls) :
          sub.calls[i] \in {"parsePublicIssueForm", "createClient", "getUser",
                            "userProfiles.findFirst(email)",
                            "machines.findFirst", "userProfiles.findFirst(id)",
                            "createIssue"}
          => \E j \in 1..(i - 1) : sub.calls[j] = "checkPublicIssueLimit"
    /\ sub.parseError # <<>> =>
          /\ Submitted
          /\ sub.outcome = Redirect(<<"/","r","e","p","o","r","t","?","e","r","r","o","r","=","T","i","t","l","e","+","i","s","+","r","e","q","u","i","r","e","d">>)
          /\ ~SubCalled("createIssue") /\ sub.created = <<>>

C24_Witness ==
    /\ Submitted /\ sub.limited /\ sub.outcome.kind = "redirect"
    /\ sub.calls = <<"getClientIp", "checkPublicIssueLimit">>

=============================================================================
